---------------------------- MODULE Spec2Model ----------------------------
(***************************************************************************)
(* A model of the report accumulator of src/cli/report.rs (Reporter): the  *)
(* two reporter modes, add_game / add_backups / add_found_titles, the      *)
(* trip_* concerns, suppress_overall and render.                           *)
(*                                                                         *)
(* Option<T> is a sequence of length at most one: None is <<>> and Some(x) *)
(* is <<x>>.  A map is a function whose domain is its key set.  A text     *)
(* line is a record of the arguments given to the translator that formats  *)
(* it; a JSON object is the sequence of its <<key, value>> members in the  *)
(* order the serializer writes them.                                       *)
(***************************************************************************)
EXTENDS Integers, Sequences, FiniteSets, TLC

VARIABLES reporter, call, ncalls, failedBefore, history

vars == <<reporter, call, ncalls, failedBefore, history>>

\* The number of operations one run of the model performs.
MaxCalls == 3

-----------------------------------------------------------------------------
(* Generic helpers *)

None == <<>>

Some(x) == <<x>>

is_some(o) == o # <<>>

EmptyMap == [k \in {} |-> {}]

MapInsert(m, k, v) == [x \in (DOMAIN m) \cup {k} |-> IF x = k THEN v ELSE m[x]]

\* Every string of the model, in the byte order Rust's Ord for str gives.
StrOrder ==
    << "/backup/file3", "/file1", "/file2", "/fileX", "/original/file3",
       "/redirected/file3",
       "HKEY_CURRENT_USER/Key1", "HKEY_CURRENT_USER/Key3",
       "HKEY_CURRENT_USER/KeyX",
       "Value1", "Value2", "bar", "baz", "foo" >>

StrRank(s) == CHOOSE i \in 1..Len(StrOrder) : StrOrder[i] = s

StrLess(a, b) == StrRank(a) < StrRank(b)

RECURSIVE SortStrings(_)
\* The strings of S in ascending order.
SortStrings(S) ==
    IF S = {} THEN <<>>
    ELSE LET m == CHOOSE x \in S : \A y \in S : ~StrLess(y, x)
         IN  <<m>> \o SortStrings(S \ {m})

RECURSIVE FlatSeq(_)
\* The concatenation of a sequence of sequences.
FlatSeq(ss) == IF ss = <<>> THEN <<>> ELSE Head(ss) \o FlatSeq(Tail(ss))

-----------------------------------------------------------------------------
(* The collaborators' data: ScanInfo, BackupInfo, DuplicateDetector *)

ScanChanges == {"New", "Different", "Same", "Unknown"}

Decisions == {"Processed", "Cancelled", "Ignored"}

GameNames == {"foo", "bar"}

file1 == [path |-> "/file1", size |-> 100, hash |-> "1", original_path |-> None,
          ignored |-> FALSE, change |-> "Unknown", redirected |-> None]

file2 == [path |-> "/file2", size |-> 50, hash |-> "2", original_path |-> None,
          ignored |-> FALSE, change |-> "Same", redirected |-> None]

file3 == [path |-> "/backup/file3", size |-> 7, hash |-> "3",
          original_path |-> Some("/original/file3"),
          ignored |-> TRUE, change |-> "New",
          redirected |-> Some("/redirected/file3")]

\* The file of /file1 as another scan hashed it: equal path, another value.
file1Other == [file1 EXCEPT !.hash = "2"]

fileX == [path |-> "/fileX", size |-> 9, hash |-> "4", original_path |-> None,
          ignored |-> FALSE, change |-> "Unknown", redirected |-> None]

Key1 == [path |-> "HKEY_CURRENT_USER/Key1", ignored |-> FALSE,
         change |-> "Unknown", values |-> EmptyMap]

Key3 == [path |-> "HKEY_CURRENT_USER/Key3", ignored |-> TRUE,
         change |-> "Different",
         values |-> [v \in {"Value1", "Value2"} |->
                       IF v = "Value1"
                       THEN [ignored |-> FALSE, change |-> "Same"]
                       ELSE [ignored |-> TRUE, change |-> "New"]]]

ScanInfo(game, files, keys, rest, overall) ==
    [game_name |-> game, found_files |-> files, found_registry_keys |-> keys,
     restoring |-> rest, overall |-> overall]

BackupInfo(files, keys) == [failed_files |-> files, failed_registry |-> keys]

\* ScanInfo::default(): nothing found.
scanDefault == ScanInfo("foo", {}, {}, FALSE, "Same")

scanFiles == ScanInfo("foo", {file1, file2}, {}, FALSE, "Same")

scanRegistry == ScanInfo("foo", {file1}, {Key1, Key3}, FALSE, "Unknown")

scanRedirecting == ScanInfo("bar", {file3}, {}, FALSE, "New")

scanRestoring == ScanInfo("bar", {file1, file3}, {Key1}, TRUE, "Different")

backupOk == BackupInfo({}, {})

backupFailed == BackupInfo({file2, file3}, {"HKEY_CURRENT_USER/Key1"})

\* Failures of entries that none of the scans found.
backupStray == BackupInfo({fileX, file1Other}, {"HKEY_CURRENT_USER/KeyX"})

\* A DuplicateDetector: per granularity, the entries whose duplication is
\* not resolved, and the games that hold each entry.
DuplicateDetector(games, files, fileBy, keys, keyBy, vals, valBy) ==
    [games |-> games, files |-> files, file_by |-> fileBy,
     registry |-> keys, registry_by |-> keyBy,
     values |-> vals, value_by |-> valBy]

\* DuplicateDetector::default()
ddDefault == DuplicateDetector({}, {}, EmptyMap, {}, EmptyMap, {}, EmptyMap)

\* foo and bar both hold /file1, Key1 and Key3's Value1; a third game, baz,
\* holds /file1 too.
ddShared ==
    DuplicateDetector(
        {"foo", "bar", "baz"},
        {"/file1"}, [p \in {"/file1"} |-> {"foo", "bar", "baz"}],
        {"HKEY_CURRENT_USER/Key1"},
        [p \in {"HKEY_CURRENT_USER/Key1"} |-> {"foo", "bar"}],
        {<<"HKEY_CURRENT_USER/Key3", "Value1">>},
        [p \in {<<"HKEY_CURRENT_USER/Key3", "Value1">>} |-> {"foo", "bar"}])

\* Entries reported as duplicated that only one game holds.
ddLone ==
    DuplicateDetector(
        {"foo"},
        {"/file1", "/file2"}, [p \in {"/file1", "/file2"} |-> {"foo"}],
        {"HKEY_CURRENT_USER/Key1"},
        [p \in {"HKEY_CURRENT_USER/Key1"} |-> {"foo"}],
        {<<"HKEY_CURRENT_USER/Key3", "Value1">>},
        [p \in {<<"HKEY_CURRENT_USER/Key3", "Value1">>} |-> {"foo"}])

Lookup(m, k) == IF k \in DOMAIN m THEN m[k] ELSE {}

-----------------------------------------------------------------------------
(* The collaborators' queries *)

\* ScanInfo::can_report_game
can_report_game(scan) ==
    scan.found_files # {} \/ scan.found_registry_keys # {}

\* ScanInfo::restoring
restoring_of(scan) == scan.restoring

\* ScanInfo::overall_change
overall_change(scan) == scan.overall

RECURSIVE SumSizes(_)
SumSizes(files) ==
    IF files = {} THEN 0
    ELSE LET f == CHOOSE x \in files : TRUE
         IN  f.size + SumSizes(files \ {f})

\* ScanInfo::total_possible_bytes
total_possible_bytes(scan) == SumSizes(scan.found_files)

\* sum_bytes as it would be if the failed files' sizes were added to the
\* found files' sizes instead of left out.
sum_bytes_adds_failed(scan, backup) ==
    IF is_some(backup)
    THEN SumSizes(scan.found_files) + SumSizes(backup[1].failed_files)
    ELSE SumSizes(scan.found_files)

\* ScanInfo::sum_bytes(backup_info)
sum_bytes(scan, backup) ==
    IF is_some(backup)
    THEN SumSizes({f \in scan.found_files : f \notin backup[1].failed_files})
    ELSE SumSizes(scan.found_files)

\* ScannedFile::original_path()
original_path_of(file) ==
    IF is_some(file.original_path) THEN file.original_path[1] ELSE file.path

\* ScannedFile::readable
readable(file, restoring) ==
    IF restoring /\ is_some(file.redirected)
    THEN file.redirected[1]
    ELSE original_path_of(file)

\* ScannedFile::alt_readable
alt_readable(file, restoring) ==
    IF ~is_some(file.redirected) THEN None
    ELSE IF restoring THEN Some(original_path_of(file))
    ELSE file.redirected

\* ScannedFile::change, ScannedRegistry::change, ScannedRegistryValue::change
change_of(entry) == entry.change

\* DuplicateDetector::is_game_duplicated(..).resolved()
game_resolved(dd, game) == game \notin dd.games

\* DuplicateDetector::is_file_duplicated(..).resolved()
file_resolved(dd, file) == file.path \notin dd.files

\* DuplicateDetector::file(..).into_keys()
file_games(dd, file) == Lookup(dd.file_by, file.path)

\* DuplicateDetector::is_registry_duplicated(..).resolved()
registry_resolved(dd, path) == path \notin dd.registry

\* DuplicateDetector::registry(..).into_keys()
registry_games(dd, path) == Lookup(dd.registry_by, path)

\* DuplicateDetector::is_registry_value_duplicated(..).resolved()
registry_value_resolved(dd, path, value) == <<path, value>> \notin dd.values

\* DuplicateDetector::registry_value(..).into_keys()
registry_value_games(dd, path, value) == Lookup(dd.value_by, <<path, value>>)

\* sorted_entries as it would be without the sort, the entries taken in the
\* order the hash set yields them: here the descending one.
sorted_entries_unsorted(entries) ==
    LET paths == SortStrings({e.path : e \in entries})
    IN  [i \in 1..Len(paths) |->
           CHOOSE e \in entries : e.path = paths[Len(paths) + 1 - i]]

\* itertools::sorted over found_files and found_registry_keys: the entries in
\* the order of their paths (the entries of one scan have distinct paths).
sorted_entries(entries) ==
    LET paths == SortStrings({e.path : e \in entries})
    IN  [i \in 1..Len(paths) |-> CHOOSE e \in entries : e.path = paths[i]]

\* itertools::sorted over a registry key's values: the value names in order
sorted_values(values) == SortStrings(DOMAIN values)

-----------------------------------------------------------------------------
(* ApiErrors, OperationStatus, Reporter *)

\* ApiErrors::default()
ApiErrorsDefault ==
    [some_games_failed |-> None, unknown_games |-> None,
     cloud_conflict |-> None, cloud_sync_failed |-> None]

\* OperationStatus::default()
OperationStatusDefault ==
    [total_games |-> 0, total_bytes |-> 0,
     processed_games |-> 0, processed_bytes |-> 0,
     changed_games |-> [new |-> 0, different |-> 0, same |-> 0]]

\* OperationStatus::add_game(scan_info, backup_info, processed)
OperationStatus_add_game(status, scan, backup, processed) ==
    LET change == overall_change(scan)
        cg == status.changed_games
    IN  [total_games |-> status.total_games + 1,
         total_bytes |-> status.total_bytes + total_possible_bytes(scan),
         processed_games |->
             status.processed_games + (IF processed THEN 1 ELSE 0),
         processed_bytes |->
             status.processed_bytes
                 + (IF processed THEN sum_bytes(scan, backup) ELSE 0),
         changed_games |->
             [new |-> cg.new + (IF change = "New" THEN 1 ELSE 0),
              different |->
                  cg.different + (IF change = "Different" THEN 1 ELSE 0),
              same |-> cg.same + (IF change = "Same" THEN 1 ELSE 0)]]

\* Reporter::standard()
Reporter_standard ==
    [tag |-> "Standard", parts |-> <<>>,
     status |-> Some(OperationStatusDefault), errors |-> ApiErrorsDefault]

\* Reporter::json()
Reporter_json ==
    [tag |-> "Json",
     output |-> [errors |-> None, overall |-> Some(OperationStatusDefault),
                 games |-> EmptyMap]]

\* The error concerns of either mode (an absent errors block holds none).
errors_of(r) ==
    IF r.tag = "Standard" THEN r.errors
    ELSE IF is_some(r.output.errors) THEN r.output.errors[1]
    ELSE ApiErrorsDefault

\* The closures given to set_errors each assign one field of ApiErrors: a
\* closure is the pair of that field and the value it stores.
apply_closure(f, errors) == [errors EXCEPT ![f[1]] = f[2]]

\* set_errors as it would be if the Json branch always started from a fresh
\* ApiErrors: the concerns tripped before are lost.
set_errors_fresh(r, f) ==
    IF r.tag = "Standard"
    THEN [r EXCEPT !.errors = apply_closure(f, r.errors)]
    ELSE [r EXCEPT !.output.errors = Some(apply_closure(f, ApiErrorsDefault))]

\* Reporter::set_errors
set_errors(r, f) ==
    IF r.tag = "Standard"
    THEN [r EXCEPT !.errors = apply_closure(f, r.errors)]
    ELSE IF is_some(r.output.errors)
         THEN [r EXCEPT !.output.errors =
                            Some(apply_closure(f, r.output.errors[1]))]
         ELSE [r EXCEPT !.output.errors =
                            Some(apply_closure(f, ApiErrorsDefault))]

\* Reporter::trip_some_games_failed
trip_some_games_failed(r) ==
    set_errors(r, <<"some_games_failed", Some(TRUE)>>)

\* trip_unknown_games as it would be if the names were added to the stored
\* list instead of stored in its place.
trip_unknown_games_extends(r, games) ==
    set_errors(r, <<"unknown_games",
                    Some((IF is_some(errors_of(r).unknown_games)
                          THEN errors_of(r).unknown_games[1] ELSE <<>>)
                         \o games)>>)

\* Reporter::trip_unknown_games
trip_unknown_games(r, games) ==
    set_errors(r, <<"unknown_games", Some(games)>>)

\* Reporter::trip_cloud_conflict
trip_cloud_conflict(r) ==
    set_errors(r, <<"cloud_conflict", Some("CloudConflict")>>)

\* Reporter::trip_cloud_sync_failed
trip_cloud_sync_failed(r) ==
    set_errors(r, <<"cloud_sync_failed", Some("CloudSyncFailed")>>)

\* Reporter::suppress_overall
suppress_overall(r) ==
    IF r.tag = "Standard"
    THEN [r EXCEPT !.status = None]
    ELSE [r EXCEPT !.output.overall = None]

-----------------------------------------------------------------------------
(* Reporter::add_game, Standard branch *)

\* TRANSLATOR.cli_game_header
cli_game_header(name, bytes, decision, duplicated, change) ==
    [kind |-> "game_header", name |-> name, bytes |-> bytes,
     decision |-> decision, duplicated |-> duplicated, change |-> change]

\* TRANSLATOR.cli_game_line_item
cli_game_line_item(item, successful, ignored, duplicated, change, nested) ==
    [kind |-> "line_item", item |-> item, successful |-> successful,
     ignored |-> ignored, duplicated |-> duplicated, change |-> change,
     nested |-> nested]

\* TRANSLATOR.cli_game_line_item_redirected
cli_game_line_item_redirected(alt) == [kind |-> "redirected", path |-> alt]

\* TRANSLATOR.cli_game_line_item_redirecting
cli_game_line_item_redirecting(alt) == [kind |-> "redirecting", path |-> alt]

\* "".to_string()
blank_line == [kind |-> "blank"]

\* The lines of one found file: its line item, then its alternate path.
standard_file_lines(entry, scan, backup, dd) ==
    LET restoring == restoring_of(scan)
        entry_successful == entry \notin backup.failed_files
        alt == alt_readable(entry, restoring)
    IN  << cli_game_line_item(readable(entry, restoring), entry_successful,
                              entry.ignored, ~file_resolved(dd, entry),
                              change_of(entry), FALSE) >>
        \o (IF is_some(alt)
            THEN IF restoring
                 THEN << cli_game_line_item_redirected(alt[1]) >>
                 ELSE << cli_game_line_item_redirecting(alt[1]) >>
            ELSE <<>>)

\* The lines of one found registry key: its line item, then its values.
standard_registry_lines(entry, scan, backup, dd) ==
    LET entry_successful == entry.path \notin backup.failed_registry
        names == sorted_values(entry.values)
    IN  << cli_game_line_item(entry.path, entry_successful, entry.ignored,
                              ~registry_resolved(dd, entry.path),
                              change_of(entry), FALSE) >>
        \o [i \in 1..Len(names) |->
              cli_game_line_item(
                  names[i], TRUE, entry.values[names[i]].ignored,
                  ~registry_value_resolved(dd, entry.path, names[i]),
                  change_of(entry.values[names[i]]), TRUE)]

\* `successful` of the Standard branch as it would be if a failed registry
\* key did not clear it.
standard_successful_files_only(scan, backup) ==
    \A entry \in scan.found_files : entry \notin backup.failed_files

\* `successful` at the end of the Standard branch.
standard_successful(scan, backup) ==
    /\ \A entry \in scan.found_files : entry \notin backup.failed_files
    /\ \A entry \in scan.found_registry_keys :
           entry.path \notin backup.failed_registry

\* The lines the Standard branch pushes for one game.
standard_game_lines(name, scan, backup, decision, dd) ==
    LET files == sorted_entries(scan.found_files)
        keys == sorted_entries(scan.found_registry_keys)
    IN  << cli_game_header(name, sum_bytes(scan, Some(backup)), decision,
                           ~game_resolved(dd, scan.game_name),
                           overall_change(scan)) >>
        \o FlatSeq([i \in 1..Len(files) |->
                      standard_file_lines(files[i], scan, backup, dd)])
        \o FlatSeq([i \in 1..Len(keys) |->
                      standard_registry_lines(keys[i], scan, backup, dd)])
        \o << blank_line >>

\* The fold as it would be if the game were folded a second time.
fold_game_twice(status, scan, backup, decision) ==
    IF is_some(status)
    THEN Some(OperationStatus_add_game(
                  OperationStatus_add_game(status[1], scan, Some(backup),
                                           decision = "Processed"),
                  scan, Some(backup), decision = "Processed"))
    ELSE None

\* The fold as it would be if only processed games were folded.
fold_game_only_processed(status, scan, backup, decision) ==
    IF is_some(status) /\ decision = "Processed"
    THEN Some(OperationStatus_add_game(status[1], scan, Some(backup), TRUE))
    ELSE status

\* The fold as it would be if the backup result were not handed on.
fold_game_no_backup(status, scan, backup, decision) ==
    IF is_some(status)
    THEN Some(OperationStatus_add_game(status[1], scan, None,
                                       decision = "Processed"))
    ELSE None

\* The fold as it would be if suppressed totals were started afresh
\* (get_or_insert_with(Default::default)) instead of left absent.
fold_game_revives(status, scan, backup, decision) ==
    Some(OperationStatus_add_game(
             IF is_some(status) THEN status[1] ELSE OperationStatusDefault,
             scan, Some(backup), decision = "Processed"))

\* The fold as it would be if each game were folded into fresh totals: the
\* totals of the games added before are lost.
fold_game_last_only(status, scan, backup, decision) ==
    IF is_some(status)
    THEN Some(OperationStatus_add_game(OperationStatusDefault, scan,
                                       Some(backup), decision = "Processed"))
    ELSE None

\* The fold into the totals, when aggregation is active.
fold_game(status, scan, backup, decision) ==
    IF is_some(status)
    THEN Some(OperationStatus_add_game(status[1], scan, Some(backup),
                                       decision = "Processed"))
    ELSE None

\* The Standard branch as it would be if the lines of the game were put
\* before the buffered lines instead of after them.
add_game_standard_prepends(r, name, scan, backup, decision, dd) ==
    [r EXCEPT
       !.parts = standard_game_lines(name, scan, backup, decision, dd) \o r.parts,
       !.status = fold_game(r.status, scan, backup, decision)]

add_game_standard(r, name, scan, backup, decision, dd) ==
    [r EXCEPT
       !.parts = r.parts \o standard_game_lines(name, scan, backup, decision, dd),
       !.status = fold_game(r.status, scan, backup, decision)]

-----------------------------------------------------------------------------
(* Reporter::add_game, Json branch *)

\* duplicated_by of an entry: the games that hold it, the scan's game removed.
duplicated_by_of(resolved, games, scan) ==
    IF ~resolved THEN games \ {scan.game_name} ELSE {}

\* api_file as it would be if the alternate path were stored in both fields.
api_file_both_paths(entry, scan, backup, dd) ==
    LET alt == alt_readable(entry, restoring_of(scan))
    IN  [failed |-> entry \in backup.failed_files,
         ignored |-> entry.ignored,
         change |-> change_of(entry),
         bytes |-> entry.size,
         original_path |-> alt,
         redirected_path |-> alt,
         duplicated_by |->
             duplicated_by_of(file_resolved(dd, entry),
                              file_games(dd, entry), scan)]

api_file(entry, scan, backup, dd) ==
    LET restoring == restoring_of(scan)
        alt == alt_readable(entry, restoring)
    IN  [failed |-> entry \in backup.failed_files,
         ignored |-> entry.ignored,
         change |-> change_of(entry),
         bytes |-> entry.size,
         original_path |-> IF is_some(alt) /\ restoring THEN alt ELSE None,
         redirected_path |-> IF is_some(alt) /\ ~restoring THEN alt ELSE None,
         duplicated_by |->
             duplicated_by_of(file_resolved(dd, entry),
                              file_games(dd, entry), scan)]

api_registry_value(path, name, value, scan, dd) ==
    [ignored |-> value.ignored,
     change |-> change_of(value),
     duplicated_by |->
         duplicated_by_of(registry_value_resolved(dd, path, name),
                          registry_value_games(dd, path, name), scan)]

api_registry(entry, scan, backup, dd) ==
    [failed |-> entry.path \in backup.failed_registry,
     ignored |-> entry.ignored,
     change |-> change_of(entry),
     duplicated_by |->
         duplicated_by_of(registry_resolved(dd, entry.path),
                          registry_games(dd, entry.path), scan),
     values |-> [k \in DOMAIN entry.values |->
                   api_registry_value(entry.path, k, entry.values[k], scan, dd)]]

\* The map built by inserting, in sorted order, each entry under its key: a
\* later entry replaces an earlier one of the same key.
insert_all(entries, keys, values) ==
    [k \in {keys[i] : i \in 1..Len(entries)} |->
       LET last == CHOOSE i \in 1..Len(entries) :
                       /\ keys[i] = k
                       /\ \A j \in 1..Len(entries) : keys[j] = k => j <= i
       IN  values[last]]

json_files(scan, backup, dd) ==
    LET entries == sorted_entries(scan.found_files)
    IN  insert_all(entries,
                   [i \in 1..Len(entries) |->
                      readable(entries[i], restoring_of(scan))],
                   [i \in 1..Len(entries) |->
                      api_file(entries[i], scan, backup, dd)])

json_registry(scan, backup, dd) ==
    LET entries == sorted_entries(scan.found_registry_keys)
    IN  insert_all(entries,
                   [i \in 1..Len(entries) |-> entries[i].path],
                   [i \in 1..Len(entries) |->
                      api_registry(entries[i], scan, backup, dd)])

\* `successful` of the Json branch as it would be without the check of
\* api_registry.failed.
json_successful_files_only(scan, backup, dd) ==
    \A entry \in scan.found_files : ~api_file(entry, scan, backup, dd).failed

\* `successful` at the end of the Json branch.
json_successful(scan, backup, dd) ==
    /\ \A entry \in scan.found_files : ~api_file(entry, scan, backup, dd).failed
    /\ \A entry \in scan.found_registry_keys :
           ~api_registry(entry, scan, backup, dd).failed

\* ApiGame::Operative
Operative(decision, change, files, registry) ==
    [tag |-> "Operative", decision |-> decision, change |-> change,
     files |-> files, registry |-> registry]

\* The Json branch as it would be if a game were folded into the totals
\* only when no entry of its name is stored yet.
add_game_json_folds_new_only(r, name, scan, backup, decision, dd) ==
    [r EXCEPT
       !.output.overall =
           IF name \in DOMAIN r.output.games THEN r.output.overall
           ELSE fold_game(r.output.overall, scan, backup, decision),
       !.output.games =
           MapInsert(r.output.games, name,
                     Operative(decision, overall_change(scan),
                               json_files(scan, backup, dd),
                               json_registry(scan, backup, dd)))]

add_game_json(r, name, scan, backup, decision, dd) ==
    [r EXCEPT
       !.output.overall = fold_game(r.output.overall, scan, backup, decision),
       !.output.games =
           MapInsert(r.output.games, name,
                     Operative(decision, overall_change(scan),
                               json_files(scan, backup, dd),
                               json_registry(scan, backup, dd)))]

-----------------------------------------------------------------------------
(* Reporter::add_game *)

\* add_game as it would be without the early return for a scan that cannot
\* be reported.
add_game_no_skip(r, name, scan, backup, decision, dd) ==
    LET successful ==
            IF r.tag = "Standard"
            THEN standard_successful(scan, backup)
            ELSE json_successful(scan, backup, dd)
        added ==
            IF r.tag = "Standard"
            THEN add_game_standard(r, name, scan, backup, decision, dd)
            ELSE add_game_json(r, name, scan, backup, decision, dd)
    IN  [reporter |-> IF ~successful
                      THEN trip_some_games_failed(added)
                      ELSE added,
         ret |-> successful]

\* The reporter after the call, and the value the call returns.
add_game(r, name, scan, backup, decision, dd) ==
    IF ~can_report_game(scan)
    THEN [reporter |-> r, ret |-> TRUE]
    ELSE LET successful ==
                 IF r.tag = "Standard"
                 THEN standard_successful(scan, backup)
                 ELSE json_successful(scan, backup, dd)
             added ==
                 IF r.tag = "Standard"
                 THEN add_game_standard(r, name, scan, backup, decision, dd)
                 ELSE add_game_json(r, name, scan, backup, decision, dd)
         IN  [reporter |-> IF ~successful
                           THEN trip_some_games_failed(added)
                           ELSE added,
              ret |-> successful]

-----------------------------------------------------------------------------
(* Reporter::add_backups, Reporter::add_found_titles *)

\* scan::layout::Backup
Backup(name, when, os, comment, locked) ==
    [name |-> name, when |-> when, os |-> os, comment |-> comment,
     locked |-> locked]

backupFull ==
    Backup(".", "2000-01-02T03:04:05Z", Some("Windows"), Some("note"), TRUE)

backupPlain == Backup("backup-1", "2001-02-03T04:05:06Z", None, None, FALSE)

\* Backup::when_local: the time of the backup in the local time zone.
when_local(backup) == [local_time_of |-> backup.when]

\* One line of a backup: its name and local time, then the optional parts.
backup_line(backup) ==
    [kind |-> "backup", name |-> backup.name, when |-> when_local(backup),
     os |-> backup.os, locked |-> backup.locked, comment |-> backup.comment]

\* ApiBackup
api_backup(backup) ==
    [name |-> backup.name, when |-> backup.when, os |-> backup.os,
     comment |-> backup.comment, locked |-> backup.locked]

add_backups(r, name, available_backups) ==
    IF available_backups = <<>> THEN r
    ELSE IF r.tag = "Standard"
    THEN [r EXCEPT !.parts =
            r.parts \o << [kind |-> "backups_header", name |-> name] >>
                    \o [i \in 1..Len(available_backups) |->
                          backup_line(available_backups[i])]
                    \o << blank_line >>]
    ELSE [r EXCEPT !.output.games =
            MapInsert(r.output.games, name,
                      [tag |-> "Stored",
                       backups |-> [i \in 1..Len(available_backups) |->
                                      api_backup(available_backups[i])]])]

RECURSIVE insert_found(_, _)
\* The games map after inserting a Found entry for each name, in order.
insert_found(games, names) ==
    IF names = <<>> THEN games
    ELSE insert_found(MapInsert(games, Head(names), [tag |-> "Found"]),
                      Tail(names))

add_found_titles(r, names) ==
    LET ordered == SortStrings(names)
    IN  IF r.tag = "Standard"
        THEN [r EXCEPT !.parts =
                r.parts \o [i \in 1..Len(ordered) |->
                              [kind |-> "title", name |-> ordered[i]]]]
        ELSE [r EXCEPT !.output.games = insert_found(r.output.games, ordered)]

-----------------------------------------------------------------------------
(* Reporter::render *)

\* messages as it would be if the cloud-sync-failure warning were pushed
\* before the cloud-conflict warning.
messages_sync_first(errors) ==
    (IF is_some(errors.cloud_sync_failed)
     THEN << [kind |-> "warning",
              text |-> "unable_to_synchronize_with_cloud"] >>
     ELSE <<>>)
    \o (IF is_some(errors.cloud_conflict)
        THEN << [kind |-> "warning", text |-> "cloud_synchronize_conflict"] >>
        ELSE <<>>)

\* messages as it would be if the failed games and the unknown games were
\* reported as warnings too.
messages_all_concerns(errors) ==
    (IF is_some(errors.some_games_failed)
     THEN << [kind |-> "warning", text |-> "some_entries_failed"] >>
     ELSE <<>>)
    \o (IF is_some(errors.unknown_games)
        THEN << [kind |-> "warning", text |-> "unrecognized_games",
                 games |-> errors.unknown_games[1]] >>
        ELSE <<>>)
    \o (IF is_some(errors.cloud_conflict)
        THEN << [kind |-> "warning", text |-> "cloud_synchronize_conflict"] >>
        ELSE <<>>)
    \o (IF is_some(errors.cloud_sync_failed)
        THEN << [kind |-> "warning",
                 text |-> "unable_to_synchronize_with_cloud"] >>
        ELSE <<>>)

\* ApiErrors::messages
messages(errors) ==
    (IF is_some(errors.cloud_conflict)
     THEN << [kind |-> "warning", text |-> "cloud_synchronize_conflict"] >>
     ELSE <<>>)
    \o (IF is_some(errors.cloud_sync_failed)
        THEN << [kind |-> "warning",
                 text |-> "unable_to_synchronize_with_cloud"] >>
        ELSE <<>>)

\* TRANSLATOR.cli_summary
cli_summary(status, path) == [kind |-> "summary", status |-> status, path |-> path]

\* parts.join("\n"), as the lines of the joined string: no part and a single
\* empty part both join to the empty string, which is one empty line.
join_lines(parts) == IF parts = <<>> THEN << blank_line >> ELSE parts

RECURSIVE prefix_messages(_)
\* Each message after "\n\n": an empty line, then the message.
prefix_messages(ms) ==
    IF ms = <<>> THEN <<>>
    ELSE << blank_line, Head(ms) >> \o prefix_messages(Tail(ms))

\* The Standard branch of render as it would be if the warning messages were
\* appended whether or not the summary is.
render_standard_always_warns(r, path) ==
    IF is_some(r.status)
    THEN join_lines(r.parts) \o << cli_summary(r.status[1], path) >>
                             \o prefix_messages(messages(r.errors))
    ELSE join_lines(r.parts) \o prefix_messages(messages(r.errors))

render_standard(r, path) ==
    IF is_some(r.status)
    THEN join_lines(r.parts) \o << cli_summary(r.status[1], path) >>
                             \o prefix_messages(messages(r.errors))
    ELSE join_lines(r.parts)

\* A JSON member that is written unless `skip` holds.
member(key, value, skip) == IF skip THEN <<>> ELSE << <<key, value>> >>

\* crate::serialization::ordered_set
ordered_set(set) == SortStrings(set)

\* crate::serialization::ordered_map, over a map of serialized values
ordered_map(map) ==
    LET keys == SortStrings(DOMAIN map)
    IN  [i \in 1..Len(keys) |-> <<keys[i], map[keys[i]]>>]

\* Serialize for ApiErrors
ser_errors(e) ==
    member("someGamesFailed", IF is_some(e.some_games_failed)
                              THEN e.some_games_failed[1] ELSE FALSE,
           ~is_some(e.some_games_failed))
    \o member("unknownGames", IF is_some(e.unknown_games)
                              THEN e.unknown_games[1] ELSE <<>>,
              ~is_some(e.unknown_games))
    \o member("cloudConflict", <<>>, ~is_some(e.cloud_conflict))
    \o member("cloudSyncFailed", <<>>, ~is_some(e.cloud_sync_failed))

\* Serialize for OperationStatus
ser_status(s) ==
    << <<"totalGames", s.total_games>>, <<"totalBytes", s.total_bytes>>,
       <<"processedGames", s.processed_games>>,
       <<"processedBytes", s.processed_bytes>>,
       <<"changedGames", << <<"new", s.changed_games.new>>,
                            <<"different", s.changed_games.different>>,
                            <<"same", s.changed_games.same>> >> >> >>

\* Serialize for ApiFile as it would be without skip_serializing_if on
\* failed, ignored and duplicatedBy.
ser_file_no_skip(f) ==
    << <<"failed", f.failed>>, <<"ignored", f.ignored>>,
       <<"change", f.change>>, <<"bytes", f.bytes>> >>
    \o member("originalPath", IF is_some(f.original_path)
                              THEN f.original_path[1] ELSE "",
              ~is_some(f.original_path))
    \o member("redirectedPath", IF is_some(f.redirected_path)
                                THEN f.redirected_path[1] ELSE "",
              ~is_some(f.redirected_path))
    \o << <<"duplicatedBy", ordered_set(f.duplicated_by)>> >>

\* Serialize for ApiFile
ser_file(f) ==
    member("failed", f.failed, f.failed = FALSE)
    \o member("ignored", f.ignored, f.ignored = FALSE)
    \o << <<"change", f.change>>, <<"bytes", f.bytes>> >>
    \o member("originalPath", IF is_some(f.original_path)
                              THEN f.original_path[1] ELSE "",
              ~is_some(f.original_path))
    \o member("redirectedPath", IF is_some(f.redirected_path)
                                THEN f.redirected_path[1] ELSE "",
              ~is_some(f.redirected_path))
    \o member("duplicatedBy", ordered_set(f.duplicated_by),
              f.duplicated_by = {})

\* Serialize for ApiRegistryValue
ser_registry_value(v) ==
    member("ignored", v.ignored, v.ignored = FALSE)
    \o << <<"change", v.change>> >>
    \o member("duplicatedBy", ordered_set(v.duplicated_by),
              v.duplicated_by = {})

\* Serialize for ApiRegistry
ser_registry(g) ==
    member("failed", g.failed, g.failed = FALSE)
    \o member("ignored", g.ignored, g.ignored = FALSE)
    \o << <<"change", g.change>> >>
    \o member("duplicatedBy", ordered_set(g.duplicated_by),
              g.duplicated_by = {})
    \o member("values",
              ordered_map([k \in DOMAIN g.values |->
                             ser_registry_value(g.values[k])]),
              DOMAIN g.values = {})

\* Serialize for ApiBackup as it would be without skip_serializing_if on os
\* and comment: an absent optional is written (as null).
ser_backup_no_skip(b) ==
    << <<"name", b.name>>, <<"when", b.when>>,
       <<"os", IF is_some(b.os) THEN b.os[1] ELSE "null">>,
       <<"comment", IF is_some(b.comment) THEN b.comment[1] ELSE "null">>,
       <<"locked", b.locked>> >>

\* Serialize for ApiBackup
ser_backup(b) ==
    << <<"name", b.name>>, <<"when", b.when>> >>
    \o member("os", IF is_some(b.os) THEN b.os[1] ELSE "", ~is_some(b.os))
    \o member("comment", IF is_some(b.comment) THEN b.comment[1] ELSE "",
              ~is_some(b.comment))
    \o << <<"locked", b.locked>> >>

\* Serialize for ApiGame (untagged)
ser_game(g) ==
    IF g.tag = "Operative"
    THEN << <<"decision", g.decision>>, <<"change", g.change>>,
            <<"files", ordered_map([k \in DOMAIN g.files |->
                                      ser_file(g.files[k])])>>,
            <<"registry", ordered_map([k \in DOMAIN g.registry |->
                                         ser_registry(g.registry[k])])>> >>
    ELSE IF g.tag = "Stored"
    THEN << <<"backups", [i \in 1..Len(g.backups) |->
                            ser_backup(g.backups[i])]>> >>
    ELSE <<>>

\* Serialize for JsonOutput
render_json(output) ==
    member("errors", IF is_some(output.errors)
                     THEN ser_errors(output.errors[1]) ELSE <<>>,
           ~is_some(output.errors))
    \o member("overall", IF is_some(output.overall)
                         THEN ser_status(output.overall[1]) ELSE <<>>,
              ~is_some(output.overall))
    \o << <<"games", ordered_map([k \in DOMAIN output.games |->
                                    ser_game(output.games[k])])>> >>

\* Reporter::render
render(r, path) ==
    IF r.tag = "Standard" THEN render_standard(r, path)
    ELSE render_json(r.output)

-----------------------------------------------------------------------------
(* The driver: one reporter, fed one call at a time *)

\* The arguments of the add_game calls.
GameCalls ==
    {[name |-> s.game_name, scan |-> s, backup |-> b, decision |-> d,
      dd |-> ddDefault] :
        s \in {scanFiles, scanRegistry, scanRestoring},
        b \in {backupOk, backupFailed, backupStray},
        d \in {"Processed", "Ignored"}}
    \cup
    {[name |-> "bar", scan |-> scanRedirecting, backup |-> b,
      decision |-> d, dd |-> ddDefault] :
        b \in {backupOk, backupFailed}, d \in {"Processed", "Cancelled"}}
    \cup
    {[name |-> n, scan |-> scanRegistry, backup |-> backupOk,
      decision |-> "Processed", dd |-> d] :
        n \in GameNames, d \in {ddShared, ddLone}}
    \cup
    {[name |-> "foo", scan |-> scanDefault, backup |-> b,
      decision |-> "Processed", dd |-> ddDefault] :
        b \in {backupOk, backupFailed}}

\* The arguments of the add_backups calls.
BackupCalls ==
    {[name |-> "foo", backups |-> <<>>],
     [name |-> "foo", backups |-> <<backupFull, backupPlain>>],
     [name |-> "bar", backups |-> <<backupPlain>>]}

\* The arguments of the add_found_titles calls.
TitleCalls == {{}, {"foo", "bar"}}

\* The arguments of the trip_unknown_games calls.
UnknownCalls == {<<"foo">>, <<"foo", "bar">>}

Called(op, args, ret) == [op |-> op, args |-> args, ret |-> ret]

Init ==
    /\ reporter \in {Reporter_standard, Reporter_json}
    /\ call = Called("new", <<>>, None)
    /\ ncalls = 0
    /\ failedBefore = FALSE
    /\ history = <<>>

AddGame ==
    /\ ncalls < MaxCalls
    /\ \E c \in GameCalls :
         LET done == add_game(reporter, c.name, c.scan, c.backup, c.decision,
                              c.dd)
         IN  /\ reporter' = done.reporter
             /\ call' = Called("add_game", c, Some(done.ret))
             /\ failedBefore' = (failedBefore \/ ~done.ret)
    /\ ncalls' = ncalls + 1
    /\ UNCHANGED history

AddBackups ==
    /\ ncalls < MaxCalls
    /\ \E c \in BackupCalls :
         /\ reporter' = add_backups(reporter, c.name, c.backups)
         /\ call' = Called("add_backups", c, None)
    /\ ncalls' = ncalls + 1
    /\ UNCHANGED <<failedBefore, history>>

AddFoundTitles ==
    /\ ncalls < MaxCalls
    /\ \E names \in TitleCalls :
         /\ reporter' = add_found_titles(reporter, names)
         /\ call' = Called("add_found_titles", names, None)
    /\ ncalls' = ncalls + 1
    /\ UNCHANGED <<failedBefore, history>>

TripUnknownGames ==
    /\ ncalls < MaxCalls
    /\ \E games \in UnknownCalls :
         /\ reporter' = trip_unknown_games(reporter, games)
         /\ call' = Called("trip_unknown_games", games, None)
    /\ ncalls' = ncalls + 1
    /\ UNCHANGED <<failedBefore, history>>

TripCloudConflict ==
    /\ ncalls < MaxCalls
    /\ reporter' = trip_cloud_conflict(reporter)
    /\ call' = Called("trip_cloud_conflict", <<>>, None)
    /\ ncalls' = ncalls + 1
    /\ UNCHANGED <<failedBefore, history>>

TripCloudSyncFailed ==
    /\ ncalls < MaxCalls
    /\ reporter' = trip_cloud_sync_failed(reporter)
    /\ call' = Called("trip_cloud_sync_failed", <<>>, None)
    /\ ncalls' = ncalls + 1
    /\ UNCHANGED <<failedBefore, history>>

SuppressOverall ==
    /\ ncalls < MaxCalls
    /\ reporter' = suppress_overall(reporter)
    /\ call' = Called("suppress_overall", <<>>, None)
    /\ ncalls' = ncalls + 1
    /\ UNCHANGED <<failedBefore, history>>

Next ==
    \/ AddGame
    \/ AddBackups
    \/ AddFoundTitles
    \/ TripUnknownGames
    \/ TripCloudConflict
    \/ TripCloudSyncFailed
    \/ SuppressOverall

Spec == Init /\ [][Next]_vars

-----------------------------------------------------------------------------
(* The recording driver: the calls made so far are kept, so that the same   *)
(* calls can be made again on another reporter, or in another order.        *)

\* The number of calls one recorded run performs.
MaxHistory == 3

\* The add_game calls of the recorded runs: games that differ in size, in
\* overall change, in decision and in failure, and one that is skipped.
RecordedGameCalls ==
    {c \in GameCalls :
        /\ c.dd = ddDefault
        /\ \/ c.scan = scanFiles /\ c.backup = backupFailed
                                 /\ c.decision = "Processed"
           \/ c.scan = scanFiles /\ c.backup = backupOk
                                 /\ c.decision = "Ignored"
           \/ c.scan = scanRegistry /\ c.backup = backupFailed
                                    /\ c.decision = "Processed"
           \/ c.scan = scanRedirecting /\ c.backup = backupOk
                                       /\ c.decision = "Cancelled"
           \/ c.scan = scanRestoring /\ c.backup = backupOk
                                     /\ c.decision = "Processed"
           \/ c.scan = scanDefault /\ c.backup = backupFailed}

\* One recorded call made on a reporter: the reporter after it and the value
\* the call returns.
Apply(r, c) ==
    CASE c.op = "add_game" ->
             LET done == add_game(r, c.args.name, c.args.scan, c.args.backup,
                                  c.args.decision, c.args.dd)
             IN  [reporter |-> done.reporter, ret |-> Some(done.ret)]
      [] c.op = "trip_unknown_games" ->
             [reporter |-> trip_unknown_games(r, c.args), ret |-> None]
      [] c.op = "trip_cloud_conflict" ->
             [reporter |-> trip_cloud_conflict(r), ret |-> None]
      [] c.op = "trip_cloud_sync_failed" ->
             [reporter |-> trip_cloud_sync_failed(r), ret |-> None]
      [] c.op = "suppress_overall" ->
             [reporter |-> suppress_overall(r), ret |-> None]

RECURSIVE Replay(_, _)
\* The calls made one after the other on a reporter: the reporter after the
\* last, and what each call returned.
Replay(r, calls) ==
    IF calls = <<>> THEN [reporter |-> r, rets |-> <<>>]
    ELSE LET first == Apply(r, Head(calls))
             rest == Replay(first.reporter, Tail(calls))
         IN  [reporter |-> rest.reporter, rets |-> << first.ret >> \o rest.rets]

InitHistory ==
    /\ reporter \in {Reporter_standard, Reporter_json}
    /\ call = Called("new", <<>>, None)
    /\ ncalls = 0
    /\ failedBefore = FALSE
    /\ history = <<>>

RecordAddGame ==
    /\ ncalls < MaxHistory
    /\ \E c \in RecordedGameCalls :
         LET done == add_game(reporter, c.name, c.scan, c.backup, c.decision,
                              c.dd)
         IN  /\ reporter' = done.reporter
             /\ call' = Called("add_game", c, Some(done.ret))
             /\ failedBefore' = (failedBefore \/ ~done.ret)
    /\ ncalls' = ncalls + 1
    /\ history' = Append(history, call')

RecordTripUnknownGames ==
    /\ ncalls < MaxHistory
    /\ \E games \in UnknownCalls :
         /\ reporter' = trip_unknown_games(reporter, games)
         /\ call' = Called("trip_unknown_games", games, None)
    /\ ncalls' = ncalls + 1
    /\ history' = Append(history, call')
    /\ UNCHANGED failedBefore

RecordTripCloudConflict ==
    /\ ncalls < MaxHistory
    /\ reporter' = trip_cloud_conflict(reporter)
    /\ call' = Called("trip_cloud_conflict", <<>>, None)
    /\ ncalls' = ncalls + 1
    /\ history' = Append(history, call')
    /\ UNCHANGED failedBefore

RecordTripCloudSyncFailed ==
    /\ ncalls < MaxHistory
    /\ reporter' = trip_cloud_sync_failed(reporter)
    /\ call' = Called("trip_cloud_sync_failed", <<>>, None)
    /\ ncalls' = ncalls + 1
    /\ history' = Append(history, call')
    /\ UNCHANGED failedBefore

RecordSuppressOverall ==
    /\ ncalls < MaxHistory
    /\ reporter' = suppress_overall(reporter)
    /\ call' = Called("suppress_overall", <<>>, None)
    /\ ncalls' = ncalls + 1
    /\ history' = Append(history, call')
    /\ UNCHANGED failedBefore

NextHistory ==
    \/ RecordAddGame
    \/ RecordTripUnknownGames
    \/ RecordTripCloudConflict
    \/ RecordTripCloudSyncFailed
    \/ RecordSuppressOverall

SpecHistory == InitHistory /\ [][NextHistory]_vars

-----------------------------------------------------------------------------
(* What the claims read off a reporter and off the last call *)

\* The overall totals of either mode: None once aggregation is suppressed.
status_of(r) == IF r.tag = "Standard" THEN r.status ELSE r.output.overall

SomeGamesFailed(r) == errors_of(r).some_games_failed = Some(TRUE)

\* The paths render is asked to show.
RenderPaths == {"/dev/null", ""}

\* The step just taken was an add_game call, on a scan that can be reported.
ReportedGame(c) == c.op = "add_game" /\ can_report_game(c.args.scan)

\* The step just taken was an add_game call, on a scan that cannot.
SkippedGame(c) == c.op = "add_game" /\ ~can_report_game(c.args.scan)

\* Some found file or found registry key of the call is among the failed.
AnyFoundFailed(c) ==
    \/ \E f \in c.args.scan.found_files : f \in c.args.backup.failed_files
    \/ \E k \in c.args.scan.found_registry_keys :
           k.path \in c.args.backup.failed_registry

-----------------------------------------------------------------------------
(* C1 *)

\* C1: in either mode and from any accumulated state, add_game on a scan that
\* is not reportable returns true and changes nothing: the reporter (lines,
\* games, totals, error concerns) is the same before and after, and so is
\* what render gives for every path.
C1_SkipLeavesReporterUnchanged ==
    [][SkippedGame(call') =>
         /\ call'.ret = Some(TRUE)
         /\ reporter' = reporter
         /\ \A p \in RenderPaths : render(reporter', p) = render(reporter, p)]_vars

\* A skipped add_game call, with failures in its backup result, on a reporter
\* that has already accumulated a failed game.
C1_Witness ==
    /\ SkippedGame(call)
    /\ call.args.backup = backupFailed
    /\ ncalls >= 2
    /\ SomeGamesFailed(reporter)
    /\ call.ret = Some(TRUE)

-----------------------------------------------------------------------------
(* C2 *)

\* C2: in both modes, add_game on a reportable scan returns false exactly
\* when some found file is in the failed files or some found registry key's
\* path is in the failed registry; registry values and failed entries that
\* were not found do not count.
C2_ReturnsFalseIffFoundEntryFailed ==
    ReportedGame(call) => (call.ret = Some(FALSE) <=> AnyFoundFailed(call))

\* In Json mode, a call that returns false because of a registry key alone.
C2_Witness ==
    /\ ReportedGame(call)
    /\ reporter.tag = "Json"
    /\ call.ret = Some(FALSE)
    /\ \A f \in call.args.scan.found_files :
           f \notin call.args.backup.failed_files

-----------------------------------------------------------------------------
(* C3 *)

\* C3: someGamesFailed is set exactly when an earlier add_game call returned
\* false; no operation clears it, and an add_game call that returns true
\* does not set it.
C3_SomeGamesFailedIffReturnedFalse ==
    /\ [](SomeGamesFailed(reporter) <=> failedBefore)
    /\ [][/\ SomeGamesFailed(reporter) => SomeGamesFailed(reporter')
          /\ (call'.op = "add_game" /\ call'.ret = Some(TRUE))
                 => (SomeGamesFailed(reporter') <=> SomeGamesFailed(reporter))
          /\ (call'.op = "add_game" /\ call'.ret = Some(FALSE))
                 => SomeGamesFailed(reporter')]_vars

\* The concern is still set after a later call that is no failed add_game.
C3_Witness ==
    /\ SomeGamesFailed(reporter)
    /\ ncalls = 3
    /\ call.op \in {"suppress_overall", "trip_cloud_conflict", "add_backups"}

-----------------------------------------------------------------------------
(* C4 *)

\* C4: while aggregation is active, an add_game call on a reportable scan
\* folds the game into the totals exactly once: totalGames grows by one, and
\* processedGames and processedBytes grow only when the decision is
\* Processed (processedGames then by one); any other decision leaves both
\* as they were.
C4_FoldsGameExactlyOnce ==
    [][(ReportedGame(call') /\ is_some(status_of(reporter))) =>
         /\ is_some(status_of(reporter'))
         /\ LET old == status_of(reporter)[1]
                new == status_of(reporter')[1]
            IN  /\ new.total_games = old.total_games + 1
                /\ IF call'.args.decision = "Processed"
                   THEN /\ new.processed_games = old.processed_games + 1
                        /\ new.processed_bytes >= old.processed_bytes
                   ELSE /\ new.processed_games = old.processed_games
                        /\ new.processed_bytes = old.processed_bytes]_vars

\* Two games folded, the last of them not processed.
C4_Witness ==
    /\ ReportedGame(call)
    /\ call.args.decision = "Ignored"
    /\ is_some(status_of(reporter))
    /\ status_of(reporter)[1].total_games = 2
    /\ status_of(reporter)[1].processed_games = 1
    /\ status_of(reporter)[1].processed_bytes > 0

-----------------------------------------------------------------------------
(* C5 *)

\* C5: in every reachable state with aggregation active, processedBytes is
\* at most totalBytes.
C5_ProcessedBytesAtMostTotal ==
    is_some(status_of(reporter)) =>
        status_of(reporter)[1].processed_bytes
            <= status_of(reporter)[1].total_bytes

\* Three games folded and part of their bytes processed; the last one was
\* processed with a failed file and holds an ignored file.
C5_Witness ==
    /\ is_some(status_of(reporter))
    /\ status_of(reporter)[1].total_games = 3
    /\ status_of(reporter)[1].processed_bytes > 0
    /\ status_of(reporter)[1].processed_bytes
           < status_of(reporter)[1].total_bytes
    /\ ReportedGame(call)
    /\ call.args.decision = "Processed"
    /\ call.args.backup = backupFailed
    /\ \E f \in call.args.scan.found_files : f.ignored

-----------------------------------------------------------------------------
(* C6 *)

BucketSum(status) ==
    status.changed_games.new + status.changed_games.different
        + status.changed_games.same

\* C6: new + different + same is at most totalGames in every reachable state;
\* a folded game adds one to the bucket of its overall change and nothing to
\* the other two, and a game whose overall change is Unknown adds to none.
C6_ChangeBucketsExclusive ==
    /\ [](is_some(status_of(reporter)) =>
              BucketSum(status_of(reporter)[1])
                  <= status_of(reporter)[1].total_games)
    /\ [][(/\ ReportedGame(call')
           /\ is_some(status_of(reporter))
           /\ is_some(status_of(reporter'))) =>
             LET old == status_of(reporter)[1].changed_games
                 new == status_of(reporter')[1].changed_games
                 change == overall_change(call'.args.scan)
             IN  /\ new.new = old.new + (IF change = "New" THEN 1 ELSE 0)
                 /\ new.different =
                        old.different + (IF change = "Different" THEN 1 ELSE 0)
                 /\ new.same = old.same + (IF change = "Same" THEN 1 ELSE 0)
                 /\ change = "Unknown" => new = old]_vars

\* Two games folded, the last of Unknown overall change: one bucket entry.
C6_Witness ==
    /\ ReportedGame(call)
    /\ overall_change(call.args.scan) = "Unknown"
    /\ is_some(status_of(reporter))
    /\ status_of(reporter)[1].total_games = 2
    /\ BucketSum(status_of(reporter)[1]) = 1

-----------------------------------------------------------------------------
(* C7 *)

\* C7: for a game added with decision Processed, totalBytes grows by the
\* sizes of all its found files and processedBytes by the sizes of the found
\* files that are not among the failed files.  Files of 100 (ok) and 50
\* (failed) give 150 and 100; with no failed file both are 150.
C7_ProcessedGameBytes ==
    /\ [][(/\ ReportedGame(call')
           /\ call'.args.decision = "Processed"
           /\ is_some(status_of(reporter))
           /\ is_some(status_of(reporter'))) =>
             LET old == status_of(reporter)[1]
                 new == status_of(reporter')[1]
                 found == call'.args.scan.found_files
                 failed == call'.args.backup.failed_files
             IN  /\ new.total_bytes - old.total_bytes = SumSizes(found)
                 /\ new.processed_bytes - old.processed_bytes
                        = SumSizes(found \ failed)]_vars
    /\ []((/\ ncalls = 1
           /\ ReportedGame(call)
           /\ call.args.scan = scanFiles
           /\ call.args.decision = "Processed"
           /\ is_some(status_of(reporter))) =>
             /\ status_of(reporter)[1].total_bytes = 150
             /\ status_of(reporter)[1].processed_bytes
                    = (IF call.args.backup = backupFailed THEN 100 ELSE 150))

\* The game of the files of 100 and 50, the second failed: 150 and 100.
C7_Witness ==
    /\ ncalls = 1
    /\ ReportedGame(call)
    /\ call.args.scan = scanFiles
    /\ call.args.backup = backupFailed
    /\ call.args.decision = "Processed"
    /\ is_some(status_of(reporter))
    /\ status_of(reporter)[1].total_bytes = 150
    /\ status_of(reporter)[1].processed_bytes = 100

-----------------------------------------------------------------------------
(* C8 *)

\* The entry that the add_game call just made stored in games.
StoredEntry == reporter.output.games[call.args.name]

\* C8: in structured mode, for every add_game call, the name under which the
\* Operative entry is stored is in the duplicatedBy set of none of the
\* entry's files, registry keys and registry values.
C8_StoredNameNotInOwnDuplicatedBy ==
    (reporter.tag = "Json" /\ ReportedGame(call)) =>
        /\ \A k \in DOMAIN StoredEntry.files :
               call.args.name \notin StoredEntry.files[k].duplicated_by
        /\ \A k \in DOMAIN StoredEntry.registry :
               /\ call.args.name \notin StoredEntry.registry[k].duplicated_by
               /\ \A v \in DOMAIN StoredEntry.registry[k].values :
                      call.args.name
                          \notin StoredEntry.registry[k].values[v].duplicated_by

-----------------------------------------------------------------------------
(* C9 *)

\* Both, one or none of the two alternate-path fields of an ApiFile.
HasOriginalPath(f) == is_some(f.original_path)

HasRedirectedPath(f) == is_some(f.redirected_path)

\* C9: no file of a structured Operative entry has both originalPath and
\* redirectedPath; a file that carries an alternate path gets exactly one of
\* them, originalPath when the scan restores and redirectedPath when it backs
\* up, and a file without an alternate path gets neither.
C9_OneAlternatePathByDirection ==
    reporter.tag = "Json" =>
        /\ \A n \in DOMAIN reporter.output.games :
               reporter.output.games[n].tag = "Operative" =>
                   \A k \in DOMAIN reporter.output.games[n].files :
                       ~(/\ HasOriginalPath(reporter.output.games[n].files[k])
                         /\ HasRedirectedPath(reporter.output.games[n].files[k]))
        /\ ReportedGame(call) =>
               \A entry \in call.args.scan.found_files :
                   LET restoring == restoring_of(call.args.scan)
                       f == StoredEntry.files[readable(entry, restoring)]
                   IN  IF is_some(alt_readable(entry, restoring))
                       THEN /\ HasOriginalPath(f) <=> restoring
                            /\ HasRedirectedPath(f) <=> ~restoring
                       ELSE ~HasOriginalPath(f) /\ ~HasRedirectedPath(f)

\* Structured mode holds a game that was backed up and a game that was
\* restored, each with a file that carries an alternate path, and the last
\* one also with a file that carries none.
C9_Witness ==
    /\ reporter.tag = "Json"
    /\ ReportedGame(call)
    /\ call.args.scan = scanRestoring
    /\ call.args.name = "bar"
    /\ "foo" \in DOMAIN reporter.output.games
    /\ \E k \in DOMAIN StoredEntry.files :
           HasOriginalPath(StoredEntry.files[k])
    /\ \E k \in DOMAIN StoredEntry.files :
           ~HasOriginalPath(StoredEntry.files[k])

-----------------------------------------------------------------------------
(* C10 *)

HasMember(object, key) == \E i \in 1..Len(object) : object[i][1] = key

MemberOf(object, key) ==
    object[CHOOSE i \in 1..Len(object) : object[i][1] = key][2]

\* No member failed or ignored of the object is false, and no member
\* duplicatedBy is an empty array.
OmitsDefaults(object) ==
    \A i \in 1..Len(object) :
        /\ object[i][1] \in {"failed", "ignored"} => object[i][2] = TRUE
        /\ object[i][1] = "duplicatedBy" => object[i][2] # <<>>

\* The members failed, ignored and duplicatedBy are present exactly when the
\* entry's field is true or not empty.
PresentWhenSet(object, entry) ==
    /\ "failed" \in DOMAIN entry => (HasMember(object, "failed") <=> entry.failed)
    /\ HasMember(object, "ignored") <=> entry.ignored
    /\ HasMember(object, "duplicatedBy") <=> entry.duplicated_by # {}

\* The members of a rendered map, each checked against the entry it renders.
EntriesOmitDefaults(rendered, entries) ==
    \A i \in 1..Len(rendered) :
        /\ OmitsDefaults(rendered[i][2])
        /\ PresentWhenSet(rendered[i][2], entries[rendered[i][1]])

RegistryOmitsDefaults(rendered, entries) ==
    /\ EntriesOmitDefaults(rendered, entries)
    /\ \A i \in 1..Len(rendered) :
           HasMember(rendered[i][2], "values") =>
               EntriesOmitDefaults(MemberOf(rendered[i][2], "values"),
                                   entries[rendered[i][1]].values)

\* C10: the structured output holds no false failed or ignored member and no
\* empty duplicatedBy array, for any file, registry key or registry value of
\* any game, in any reachable state: each of these members is present only
\* when it is true or not empty.
C10_NoFalseNoEmptyInOutput ==
    reporter.tag = "Json" =>
        LET games == MemberOf(render_json(reporter.output), "games")
        IN  \A i \in 1..Len(games) :
                HasMember(games[i][2], "files") =>
                    /\ EntriesOmitDefaults(
                           MemberOf(games[i][2], "files"),
                           reporter.output.games[games[i][1]].files)
                    /\ RegistryOmitsDefaults(
                           MemberOf(games[i][2], "registry"),
                           reporter.output.games[games[i][1]].registry)

\* The rendered object of a file of a game.
RenderedFile(game, path) ==
    LET games == MemberOf(render_json(reporter.output), "games")
        files == MemberOf(games[CHOOSE i \in 1..Len(games) :
                                    games[i][1] = game][2], "files")
    IN  files[CHOOSE j \in 1..Len(files) : files[j][1] = path][2]

\* The output holds bar's file, failed and ignored (both members written),
\* and foo's /file1, which is duplicated but held by no other game: its
\* duplicatedBy, failed and ignored members are left out.
C10_Witness ==
    /\ reporter.tag = "Json"
    /\ ReportedGame(call)
    /\ call.args.name = "foo"
    /\ call.args.dd = ddLone
    /\ ~file_resolved(call.args.dd, file1)
    /\ "bar" \in DOMAIN reporter.output.games
    /\ reporter.output.games["bar"].tag = "Operative"
    /\ "/original/file3" \in DOMAIN reporter.output.games["bar"].files
    /\ reporter.output.games["bar"].files["/original/file3"].failed
    /\ MemberOf(RenderedFile("bar", "/original/file3"), "failed") = TRUE
    /\ MemberOf(RenderedFile("bar", "/original/file3"), "ignored") = TRUE
    /\ ~HasMember(RenderedFile("foo", "/file1"), "duplicatedBy")
    /\ ~HasMember(RenderedFile("foo", "/file1"), "failed")
    /\ ~HasMember(RenderedFile("foo", "/file1"), "ignored")

-----------------------------------------------------------------------------
(* C11 *)

\* The rendered document, and the rendered object of one game of it.
RenderedDoc == render_json(reporter.output)

RenderedGame(name) ==
    LET games == MemberOf(RenderedDoc, "games")
    IN  games[CHOOSE i \in 1..Len(games) : games[i][1] = name][2]

\* No boolean member of the listed keys is false and no listed collection
\* member is empty.
NoFalseNoEmpty(object, booleans, collections) ==
    \A i \in 1..Len(object) :
        /\ object[i][1] \in booleans => object[i][2] = TRUE
        /\ object[i][1] \in collections => object[i][2] # <<>>

\* C11 as claimed: the structured output holds no boolean member that is
\* false and no empty collection, for every shape of game entry and for the
\* document root.
C11_NoDefaultAnywhere ==
    reporter.tag = "Json" =>
        /\ NoFalseNoEmpty(RenderedDoc, {}, {"games"})
        /\ \A n \in DOMAIN reporter.output.games :
               /\ NoFalseNoEmpty(RenderedGame(n), {}, {"files", "registry"})
               /\ reporter.output.games[n].tag = "Stored" =>
                      \A i \in 1..Len(MemberOf(RenderedGame(n), "backups")) :
                          NoFalseNoEmpty(MemberOf(RenderedGame(n), "backups")[i],
                                         {"locked"}, {})

\* The optional members of a rendered backup are present exactly when set;
\* name, when and locked are always present, locked with its value.
BackupMembers(object, backup) ==
    /\ HasMember(object, "os") <=> is_some(backup.os)
    /\ HasMember(object, "comment") <=> is_some(backup.comment)
    /\ HasMember(object, "name") /\ HasMember(object, "when")
    /\ HasMember(object, "locked")
    /\ MemberOf(object, "locked") = backup.locked

\* The members of a rendered Operative entry: files and registry are always
\* present, with one member per stored entry; the alternate paths of a file
\* and the values of a key are present exactly when set or not empty.
OperativeMembers(object, game) ==
    /\ HasMember(object, "decision") /\ HasMember(object, "change")
    /\ HasMember(object, "files") /\ HasMember(object, "registry")
    /\ Len(MemberOf(object, "files")) = Cardinality(DOMAIN game.files)
    /\ Len(MemberOf(object, "registry")) = Cardinality(DOMAIN game.registry)
    /\ \A i \in 1..Len(MemberOf(object, "files")) :
           LET f == MemberOf(object, "files")[i]
               entry == game.files[f[1]]
           IN  /\ HasMember(f[2], "originalPath") <=> is_some(entry.original_path)
               /\ HasMember(f[2], "redirectedPath")
                      <=> is_some(entry.redirected_path)
               /\ OmitsDefaults(f[2])
    /\ \A i \in 1..Len(MemberOf(object, "registry")) :
           LET k == MemberOf(object, "registry")[i]
               entry == game.registry[k[1]]
           IN  /\ HasMember(k[2], "values") <=> DOMAIN entry.values # {}
               /\ HasMember(k[2], "values") => MemberOf(k[2], "values") # <<>>
               /\ OmitsDefaults(k[2])

\* The members of the rendered errors block are the concerns that are set.
ErrorMembers(object, errors) ==
    /\ HasMember(object, "someGamesFailed") <=> is_some(errors.some_games_failed)
    /\ HasMember(object, "unknownGames") <=> is_some(errors.unknown_games)
    /\ HasMember(object, "cloudConflict") <=> is_some(errors.cloud_conflict)
    /\ HasMember(object, "cloudSyncFailed") <=> is_some(errors.cloud_sync_failed)

\* C11 as amended: structured render omits every member that the schema
\* marks optional when it has its default value (errors and each of its
\* concerns, overall, failed, ignored, duplicatedBy, values, originalPath,
\* redirectedPath, os, comment); the members games, files, registry and
\* locked are always written, also when empty or false, and a Found entry
\* is the empty object.
C11_OptionalMembersOmitted ==
    reporter.tag = "Json" =>
        /\ HasMember(RenderedDoc, "games")
        /\ Len(MemberOf(RenderedDoc, "games"))
               = Cardinality(DOMAIN reporter.output.games)
        /\ HasMember(RenderedDoc, "overall") <=> is_some(reporter.output.overall)
        /\ HasMember(RenderedDoc, "errors") <=> is_some(reporter.output.errors)
        /\ HasMember(RenderedDoc, "errors") =>
               ErrorMembers(MemberOf(RenderedDoc, "errors"),
                            reporter.output.errors[1])
        /\ \A n \in DOMAIN reporter.output.games :
               LET game == reporter.output.games[n]
               IN  CASE game.tag = "Operative" ->
                            OperativeMembers(RenderedGame(n), game)
                     [] game.tag = "Stored" ->
                            /\ Len(MemberOf(RenderedGame(n), "backups"))
                                   = Len(game.backups)
                            /\ Len(game.backups) > 0
                            /\ \A i \in 1..Len(game.backups) :
                                   BackupMembers(
                                       MemberOf(RenderedGame(n), "backups")[i],
                                       game.backups[i])
                     [] OTHER -> RenderedGame(n) = <<>>

\* The output holds an Operative entry without registry keys, a Stored entry
\* of two backups, one with os and comment and locked, one with neither and
\* not locked, and an errors block of one concern.
C11_Witness ==
    /\ reporter.tag = "Json"
    /\ {"foo", "bar"} \subseteq DOMAIN reporter.output.games
    /\ \E n \in {"foo", "bar"} :
           /\ reporter.output.games[n].tag = "Operative"
           /\ MemberOf(RenderedGame(n), "registry") = <<>>
           /\ MemberOf(RenderedGame(n), "files") # <<>>
    /\ reporter.output.games["foo"].tag = "Stored"
    /\ MemberOf(MemberOf(RenderedGame("foo"), "backups")[2], "locked") = FALSE
    /\ HasMember(MemberOf(RenderedGame("foo"), "backups")[1], "os")
    /\ ~HasMember(MemberOf(RenderedGame("foo"), "backups")[2], "os")
    /\ HasMember(RenderedDoc, "errors")
    /\ ~HasMember(MemberOf(RenderedDoc, "errors"), "someGamesFailed")

-----------------------------------------------------------------------------
(* C12 *)

ConflictWarning == [kind |-> "warning", text |-> "cloud_synchronize_conflict"]

SyncFailedWarning ==
    [kind |-> "warning", text |-> "unable_to_synchronize_with_cloud"]

\* The lines of a text rendering that follow its summary line.
AfterSummary(out) ==
    LET i == CHOOSE k \in 1..Len(out) : out[k].kind = "summary"
    IN  SubSeq(out, i + 1, Len(out))

\* A text reporter with aggregation active.
TextAggregating(r) == r.tag = "Standard" /\ is_some(r.status)

\* The lines that follow the summary of what the reporter renders.
WarningsOf(r) == AfterSummary(render(r, "/dev/null"))

Occurs(line, lines) == \E i \in 1..Len(lines) : lines[i] = line

\* C12: in text mode with aggregation active, what follows the summary is the
\* cloud-conflict warning, if that concern was tripped, then the
\* cloud-sync-failure warning, if that one was, each after an empty line and
\* each at most once, whatever the order and the number of the trip_* calls:
\* a trip makes its warning present, a repeated trip changes nothing, and no
\* other call adds or removes a warning.
C12_WarningsInFixedOrderOnce ==
    /\ [](TextAggregating(reporter) =>
              /\ \E k \in 1..Len(render(reporter, "/dev/null")) :
                     /\ render(reporter, "/dev/null")[k].kind = "summary"
                     /\ \A j \in 1..Len(render(reporter, "/dev/null")) :
                            render(reporter, "/dev/null")[j].kind = "summary"
                                => j = k
              /\ WarningsOf(reporter) \in
                     { <<>>,
                       << blank_line, ConflictWarning >>,
                       << blank_line, SyncFailedWarning >>,
                       << blank_line, ConflictWarning,
                          blank_line, SyncFailedWarning >> })
    /\ [][(TextAggregating(reporter) /\ TextAggregating(reporter')) =>
            /\ call'.op = "trip_cloud_conflict" =>
                   /\ Occurs(ConflictWarning, WarningsOf(reporter'))
                   /\ Occurs(SyncFailedWarning, WarningsOf(reporter'))
                          <=> Occurs(SyncFailedWarning, WarningsOf(reporter))
                   /\ Occurs(ConflictWarning, WarningsOf(reporter)) =>
                          render(reporter', "/dev/null")
                              = render(reporter, "/dev/null")
            /\ call'.op = "trip_cloud_sync_failed" =>
                   /\ Occurs(SyncFailedWarning, WarningsOf(reporter'))
                   /\ Occurs(ConflictWarning, WarningsOf(reporter'))
                          <=> Occurs(ConflictWarning, WarningsOf(reporter))
                   /\ Occurs(SyncFailedWarning, WarningsOf(reporter)) =>
                          render(reporter', "/dev/null")
                              = render(reporter, "/dev/null")
            /\ call'.op \notin {"trip_cloud_conflict", "trip_cloud_sync_failed"}
                   => WarningsOf(reporter') = WarningsOf(reporter)]_vars

\* The conflict was tripped last, twice over or after the sync failure, and
\* its warning is rendered once, before the sync-failure warning.
C12_Witness ==
    /\ TextAggregating(reporter)
    /\ ncalls = 3
    /\ call.op = "trip_cloud_conflict"
    /\ reporter.parts = <<>>
    /\ WarningsOf(reporter) = << blank_line, ConflictWarning,
                                 blank_line, SyncFailedWarning >>

-----------------------------------------------------------------------------
(* C13 *)

\* What render gives holds no summary line (text) and no overall member
\* (structured).
NoOverallRendered(r) ==
    \A p \in RenderPaths :
        IF r.tag = "Standard"
        THEN \A i \in 1..Len(render(r, p)) : render(r, p)[i].kind # "summary"
        ELSE ~HasMember(render(r, p), "overall")

\* C13: in either mode, suppress_overall leaves the reporter without totals,
\* whatever was accumulated before; once the totals are absent no operation
\* makes them present again (an add_game call then accumulates nothing), and
\* every render from then on holds no summary and no overall block.  Only
\* suppress_overall makes the totals absent.
C13_SuppressedStaysSuppressed ==
    /\ [](~is_some(status_of(reporter)) <=> NoOverallRendered(reporter))
    /\ [][/\ call'.op = "suppress_overall" => ~is_some(status_of(reporter'))
          /\ ~is_some(status_of(reporter)) => ~is_some(status_of(reporter'))
          /\ (is_some(status_of(reporter)) /\ call'.op # "suppress_overall")
                 => is_some(status_of(reporter'))]_vars

\* Structured mode after three calls, one of them suppress_overall and the
\* last a reported add_game: two Operative games and no totals.
C13_Witness ==
    /\ reporter.tag = "Json"
    /\ ncalls = 3
    /\ ReportedGame(call)
    /\ DOMAIN reporter.output.games = {"foo", "bar"}
    /\ \A n \in {"foo", "bar"} : reporter.output.games[n].tag = "Operative"
    /\ ~is_some(status_of(reporter))
    /\ NoOverallRendered(reporter)

-----------------------------------------------------------------------------
(* C14 *)

\* The orders in which a hash set may yield its elements.
hash_iter(S) ==
    {o \in [1..Cardinality(S) -> S] :
        \A i, j \in 1..Cardinality(S) : o[i] = o[j] => i = j}

RECURSIVE InsertionSort(_)
\* A sequence of strings sorted by insertion, from whatever order it is in.
InsertionSort(seq) ==
    IF seq = <<>> THEN <<>>
    ELSE LET rest == InsertionSort(Tail(seq))
             n == Cardinality({i \in 1..Len(rest) : StrLess(rest[i], Head(seq))})
         IN  SubSeq(rest, 1, n) \o << Head(seq) >> \o SubSeq(rest, n + 1, Len(rest))

\* The entries of an iteration order, sorted by their paths.
SortedByPath(order) ==
    LET paths == InsertionSort([i \in 1..Len(order) |-> order[i].path])
    IN  [i \in 1..Len(paths) |->
           order[CHOOSE j \in 1..Len(order) : order[j].path = paths[i]]]

\* The keys of a rendered map, and the strings of a rendered set, ascend.
KeysAscend(object) ==
    \A i \in 1..(Len(object) - 1) : StrLess(object[i][1], object[i + 1][1])

StringsAscend(array) ==
    \A i \in 1..(Len(array) - 1) : StrLess(array[i], array[i + 1])

\* The duplicatedBy array of a rendered entry, if it has one, ascends.
DuplicatedByAscends(object) ==
    HasMember(object, "duplicatedBy") =>
        StringsAscend(MemberOf(object, "duplicatedBy"))

\* Every map and set of a rendered Operative entry ascends.
OperativeAscends(object) ==
    /\ KeysAscend(MemberOf(object, "files"))
    /\ KeysAscend(MemberOf(object, "registry"))
    /\ \A i \in 1..Len(MemberOf(object, "files")) :
           DuplicatedByAscends(MemberOf(object, "files")[i][2])
    /\ \A i \in 1..Len(MemberOf(object, "registry")) :
           LET key == MemberOf(object, "registry")[i][2]
           IN  /\ DuplicatedByAscends(key)
               /\ HasMember(key, "values") =>
                      /\ KeysAscend(MemberOf(key, "values"))
                      /\ \A j \in 1..Len(MemberOf(key, "values")) :
                             DuplicatedByAscends(MemberOf(key, "values")[j][2])

\* The lines that the last add_game call of a text reporter pushed: from the
\* last game header on.
LastBlock ==
    LET start == CHOOSE i \in 1..Len(reporter.parts) :
                     /\ reporter.parts[i].kind = "game_header"
                     /\ \A j \in (i + 1)..Len(reporter.parts) :
                            reporter.parts[j].kind # "game_header"
    IN  SubSeq(reporter.parts, start, Len(reporter.parts))

\* The lines of the entries of an iteration order, once sorted.
FileLinesFrom(order, c) ==
    FlatSeq([i \in 1..Len(order) |->
               standard_file_lines(SortedByPath(order)[i], c.scan, c.backup,
                                   c.dd)])

RegistryLinesFrom(order, c) ==
    FlatSeq([i \in 1..Len(order) |->
               standard_registry_lines(SortedByPath(order)[i], c.scan,
                                       c.backup, c.dd)])

\* The value lines that follow one another in a block ascend by name.
ValueLinesAscend(block) ==
    \A i \in 1..(Len(block) - 1) :
        (/\ block[i].kind = "line_item" /\ block[i].nested
         /\ block[i + 1].kind = "line_item" /\ block[i + 1].nested)
            => StrLess(block[i].item, block[i + 1].item)

-----------------------------------------------------------------------------
(* C15 *)

\* The new reporter of the mode of a reporter.
Fresh(r) == IF r.tag = "Standard" THEN Reporter_standard ELSE Reporter_json

\* The ways to reorder a sequence of n calls.
Orders(n) ==
    {p \in [1..n -> 1..n] : \A i, j \in 1..n : p[i] = p[j] => i = j}

Reordered(calls, p) == [i \in 1..Len(calls) |-> calls[p[i]]]

\* The lines one call pushes on a new text reporter.
BlockOf(c) == Apply(Reporter_standard, c).reporter.parts

\* C15: the overall totals after the calls of a run are the same for every
\* order in which those calls are made; in text mode the lines are the blocks
\* of the calls, in the order of the calls.
C15_TotalsIndependentOfCallOrder ==
    \A p \in Orders(Len(history)) :
        LET other == Replay(Fresh(reporter), Reordered(history, p)).reporter
        IN  /\ status_of(other) = status_of(reporter)
            /\ reporter.tag = "Standard" =>
                   other.parts
                       = FlatSeq([i \in 1..Len(history) |->
                                    BlockOf(history[p[i]])])

\* Three games were added, of different sizes, changes and decisions, one of
\* them with a failed file: the totals count all three, and the text lines
\* of another order of the calls differ.
C15_Witness ==
    /\ Len(history) = 3
    /\ \A i \in 1..3 : ReportedGame(history[i])
    /\ history[1].args.scan = scanFiles
    /\ history[1].args.backup = backupFailed
    /\ history[2].args.scan = scanRedirecting
    /\ history[3].args.scan = scanRegistry
    /\ is_some(status_of(reporter))
    /\ status_of(reporter)[1].total_games = 3
    /\ status_of(reporter)[1].processed_games = 2
    /\ status_of(reporter)[1].processed_bytes
           < status_of(reporter)[1].total_bytes
    /\ reporter.tag = "Standard"
    /\ \E p \in Orders(3) :
           Replay(Reporter_standard, Reordered(history, p)).reporter.parts
               # reporter.parts

-----------------------------------------------------------------------------
(* C16 *)

TripOps == {"trip_unknown_games", "trip_cloud_conflict", "trip_cloud_sync_failed"}

\* The concern that a trip_* operation sets.
ConcernOf(op) ==
    CASE op = "trip_unknown_games" -> "unknown_games"
      [] op = "trip_cloud_conflict" -> "cloud_conflict"
      [] op = "trip_cloud_sync_failed" -> "cloud_sync_failed"

Concerns ==
    {"some_games_failed", "unknown_games", "cloud_conflict", "cloud_sync_failed"}

\* The operation was called before, with any argument.
CalledBefore(op) == \E i \in 1..Len(history) : history[i].op = op

\* The last call of the operation so far was made with these arguments.
LastCalledWith(op, args) ==
    \E i \in 1..Len(history) :
        /\ history[i].op = op /\ history[i].args = args
        /\ \A j \in (i + 1)..Len(history) : history[j].op # op

\* The call leaves every concern but that of its operation as it was.
OtherConcernsKept(op, before, after) ==
    \A f \in Concerns \ {ConcernOf(op)} :
        errors_of(after)[f] = errors_of(before)[f]

SameRender(before, after) ==
    \A p \in RenderPaths : render(after, p) = render(before, p)

\* C16 as claimed: a further call of a trip_* operation, with any argument,
\* after that operation has been called leaves the error concerns and the
\* rendered output as they were, and no trip_* call changes a concern other
\* than its own.
C16_RepeatedTripChangesNothing ==
    [][call'.op \in TripOps =>
         /\ OtherConcernsKept(call'.op, reporter, reporter')
         /\ CalledBefore(call'.op) =>
                /\ errors_of(reporter') = errors_of(reporter)
                /\ SameRender(reporter, reporter')]_vars

\* C16 as amended: a further call of a trip_* operation with the arguments
\* of the last call of it leaves the reporter and the rendered output as
\* they were (for the two cloud operations, that is every further call); a
\* trip_unknown_games call stores its names in the place of those stored
\* before, which the text output never shows; no trip_* call changes a
\* concern other than its own.
C16_RepeatedTripSameArguments ==
    [][call'.op \in TripOps =>
         /\ OtherConcernsKept(call'.op, reporter, reporter')
         /\ is_some(errors_of(reporter')[ConcernOf(call'.op)])
         /\ call'.op = "trip_unknown_games" =>
                errors_of(reporter').unknown_games = Some(call'.args)
         /\ LastCalledWith(call'.op, call'.args) =>
                /\ reporter' = reporter
                /\ SameRender(reporter, reporter')
         /\ (call'.op # "trip_unknown_games" /\ CalledBefore(call'.op)) =>
                reporter' = reporter
         /\ reporter.tag = "Standard" /\ call'.op = "trip_unknown_games" =>
                SameRender(reporter, reporter')]_vars

\* The unknown games were tripped twice with the same names, the cloud
\* conflict in between: one list, as the first call stored it.
C16_Witness ==
    /\ Len(history) = 3
    /\ history[1] = Called("trip_unknown_games", <<"foo">>, None)
    /\ history[2].op = "trip_cloud_conflict"
    /\ history[3] = history[1]
    /\ reporter.tag = "Json"
    /\ errors_of(reporter).unknown_games = Some(<<"foo">>)
    /\ is_some(errors_of(reporter).cloud_conflict)
    /\ MemberOf(MemberOf(RenderedDoc, "errors"), "unknownGames") = <<"foo">>

-----------------------------------------------------------------------------
(* C17 *)

\* The values the someGamesFailed and the unknownGames concern may hold.
FailedValues == {None, Some(TRUE)}

UnknownValues == {None} \cup {Some(games) : games \in UnknownCalls}

\* The text reporter with the two concerns set to the given values.
WithConcerns(r, failed, unknown) ==
    [r EXCEPT !.errors.some_games_failed = failed,
              !.errors.unknown_games = unknown]

\* C17: in text mode, every text reporter that differs from a reachable one
\* in the someGamesFailed and unknownGames concerns alone renders what that
\* one renders, for every path, and messages() yields nothing but the
\* cloud-conflict and the cloud-sync-failure warning, each at most once.
C17_TextIgnoresFailedAndUnknown ==
    reporter.tag = "Standard" =>
        /\ \A failed \in FailedValues : \A unknown \in UnknownValues :
               \A p \in RenderPaths :
                   render(WithConcerns(reporter, failed, unknown), p)
                       = render(reporter, p)
        /\ \A failed \in FailedValues : \A unknown \in UnknownValues :
               messages(WithConcerns(reporter, failed, unknown).errors)
                   = messages(reporter.errors)
        /\ Len(messages(reporter.errors)) <= 2
        /\ \A i \in 1..Len(messages(reporter.errors)) :
               messages(reporter.errors)[i]
                   \in {ConflictWarning, SyncFailedWarning}
        /\ \A i, j \in 1..Len(messages(reporter.errors)) :
               messages(reporter.errors)[i] = messages(reporter.errors)[j]
                   => i = j

\* A text reporter with aggregation active on which a game has failed, the
\* unknown games were tripped and the cloud conflict was: one warning.
C17_Witness ==
    /\ TextAggregating(reporter)
    /\ SomeGamesFailed(reporter)
    /\ is_some(reporter.errors.unknown_games)
    /\ is_some(reporter.errors.cloud_conflict)
    /\ messages(reporter.errors) = << ConflictWarning >>
    /\ WarningsOf(reporter) = << blank_line, ConflictWarning >>

-----------------------------------------------------------------------------
(* C18 *)

\* The lines that the step pushed: those of the new buffer after the old.
Pushed(before, after) ==
    SubSeq(after.parts, Len(before.parts) + 1, Len(after.parts))

CountOf(lines, kinds) ==
    Cardinality({i \in 1..Len(lines) : lines[i].kind \in kinds})

\* The lines of a reported game: the header first, the blank line last and
\* nowhere else, and in between one line per found file and found key, one
\* per alternate path and one per registry value.
GameBlock(block, c) ==
    /\ Len(block) >= 3
    /\ block[1].kind = "game_header"
    /\ block[1].name = c.name
    /\ block[Len(block)] = blank_line
    /\ CountOf(block, {"blank"}) = 1
    /\ CountOf(block, {"game_header"}) = 1
    /\ \A i \in 2..(Len(block) - 1) :
           block[i].kind \in {"line_item", "redirected", "redirecting"}
    /\ Cardinality({i \in 1..Len(block) :
                       block[i].kind = "line_item" /\ ~block[i].nested})
           = Cardinality(c.scan.found_files)
                 + Cardinality(c.scan.found_registry_keys)
    /\ CountOf(block, {"redirected", "redirecting"})
           = Cardinality({f \in c.scan.found_files :
                             is_some(alt_readable(f, restoring_of(c.scan)))})

\* C18: in text mode every operation leaves the buffered lines as they were
\* and in place, pushing its own lines after them; the trip_* operations and
\* suppress_overall push none; a reported add_game call pushes one block, the
\* header, the lines of its files and registry keys and one blank line; and
\* what is rendered starts with the buffered lines, in the order in which
\* they were pushed.
C18_TextLinesAppendOnly ==
    /\ []((reporter.tag = "Standard" /\ reporter.parts # <<>>) =>
              \A p \in RenderPaths :
                  SubSeq(render(reporter, p), 1, Len(reporter.parts))
                      = reporter.parts)
    /\ [][reporter.tag = "Standard" =>
            /\ Len(reporter'.parts) >= Len(reporter.parts)
            /\ SubSeq(reporter'.parts, 1, Len(reporter.parts)) = reporter.parts
            /\ call'.op \in TripOps \cup {"suppress_overall"} =>
                   reporter'.parts = reporter.parts
            /\ SkippedGame(call') => reporter'.parts = reporter.parts
            /\ ReportedGame(call') =>
                   GameBlock(Pushed(reporter, reporter'), call'.args)]_vars

\* A text reporter after a listing of backups, a game and another game: the
\* backups' lines come first, then the blocks of the two games in the order
\* of the calls, the last with an alternate path line.
C18_Witness ==
    /\ reporter.tag = "Standard"
    /\ ncalls = 3
    /\ ReportedGame(call)
    /\ call.args.scan = scanRedirecting
    /\ reporter.parts[1].kind = "backups_header"
    /\ CountOf(reporter.parts, {"game_header"}) = 2
    /\ CountOf(reporter.parts, {"blank"}) = 3
    /\ CountOf(LastBlock, {"redirecting"}) = 1
    /\ LastBlock[1].name = "bar"
    /\ \E i \in 1..Len(reporter.parts) :
           /\ reporter.parts[i].kind = "game_header"
           /\ reporter.parts[i].name = "foo"

-----------------------------------------------------------------------------
(* C19 *)

\* The concerns that are tripped.
Tripped(r) == {f \in Concerns : is_some(errors_of(r)[f])}

\* The calls made so far, made on a new text reporter and on a new
\* structured reporter.
AsText == Replay(Reporter_standard, history)

AsJson == Replay(Reporter_json, history)

\* C19: a text reporter and a structured reporter that are given the same
\* calls of add_game, trip_* and suppress_overall agree after every call:
\* each call has returned the same value in both, both hold the same overall
\* totals, or both none, and the same concerns are tripped in both, with the
\* same values.
C19_ModesAgree ==
    /\ reporter = Replay(Fresh(reporter), history).reporter
    /\ AsText.rets = AsJson.rets
    /\ status_of(AsText.reporter) = status_of(AsJson.reporter)
    /\ Tripped(AsText.reporter) = Tripped(AsJson.reporter)
    /\ errors_of(AsText.reporter) = errors_of(AsJson.reporter)

\* A game fails on a registry key alone, then the sync failure is tripped,
\* then another game is added: both modes returned false and true, hold the
\* totals of two games and the two concerns.
C19_Witness ==
    /\ Len(history) = 3
    /\ ReportedGame(history[1])
    /\ history[1].args.scan = scanRegistry
    /\ history[1].args.backup = backupFailed
    /\ history[2].op = "trip_cloud_sync_failed"
    /\ ReportedGame(history[3])
    /\ AsText.rets = << Some(FALSE), None, Some(TRUE) >>
    /\ AsJson.rets = << Some(FALSE), None, Some(TRUE) >>
    /\ status_of(AsJson.reporter)[1].total_games = 2
    /\ status_of(AsText.reporter)[1].total_games = 2
    /\ Tripped(AsJson.reporter) = {"some_games_failed", "cloud_sync_failed"}
    /\ is_some(AsJson.reporter.output.errors)

-----------------------------------------------------------------------------
(* C20 *)

\* The names that have an Operative entry in the games of a Json reporter.
OperativeNames(r) ==
    {n \in DOMAIN r.output.games : r.output.games[n].tag = "Operative"}

\* A structured reporter with aggregation active.
JsonAggregating(r) == r.tag = "Json" /\ is_some(r.output.overall)

\* The entry has one shape: the fields of its variant and no other, and it
\* is rendered with the members of that variant alone.
OneShape(entry, object) ==
    CASE entry.tag = "Operative" ->
             /\ DOMAIN entry = {"tag", "decision", "change", "files", "registry"}
             /\ HasMember(object, "decision") /\ ~HasMember(object, "backups")
      [] entry.tag = "Stored" ->
             /\ DOMAIN entry = {"tag", "backups"}
             /\ HasMember(object, "backups") /\ ~HasMember(object, "decision")
      [] entry.tag = "Found" ->
             /\ DOMAIN entry = {"tag"}
             /\ object = <<>>
      [] OTHER -> FALSE

\* The names of games that the call just made stores an entry for.
NamesOf(c) ==
    CASE ReportedGame(c) -> {c.args.name}
      [] c.op = "add_backups" /\ c.args.backups # <<>> -> {c.args.name}
      [] c.op = "add_found_titles" -> c.args
      [] OTHER -> {}

\* C20 as claimed: in structured mode with aggregation active,
\* overall.totalGames is the number of Operative entries of games, and every
\* name of games has exactly one shape.
C20_TotalGamesCountsOperativeEntries ==
    JsonAggregating(reporter) =>
        /\ reporter.output.overall[1].total_games
               = Cardinality(OperativeNames(reporter))
        /\ \A n \in DOMAIN reporter.output.games :
               OneShape(reporter.output.games[n], RenderedGame(n))

\* C20 as amended: in structured mode with aggregation active,
\* overall.totalGames is the number of add_game calls made on reportable
\* scans: each such call adds one, and no other call changes it.  It is at
\* least the number of Operative entries of games, and equal to it as long as
\* no call names a game that has an Operative entry already: an entry stored
\* under a name replaces the one stored before, whatever its shape.  Every
\* name of games has exactly one shape, that of the last call that named it.
C20_TotalGamesCountsReportedCalls ==
    /\ [](JsonAggregating(reporter) =>
              /\ reporter.output.overall[1].total_games
                     >= Cardinality(OperativeNames(reporter))
              /\ \A n \in DOMAIN reporter.output.games :
                     OneShape(reporter.output.games[n], RenderedGame(n)))
    /\ [][(JsonAggregating(reporter) /\ JsonAggregating(reporter')) =>
            /\ reporter'.output.overall[1].total_games
                   = reporter.output.overall[1].total_games
                         + (IF ReportedGame(call') THEN 1 ELSE 0)
            /\ \A n \in NamesOf(call') :
                   reporter'.output.games[n].tag
                       = (CASE call'.op = "add_game" -> "Operative"
                            [] call'.op = "add_backups" -> "Stored"
                            [] call'.op = "add_found_titles" -> "Found")
            /\ \A n \in DOMAIN reporter.output.games \ NamesOf(call') :
                   reporter'.output.games[n] = reporter.output.games[n]
            /\ DOMAIN reporter'.output.games
                   = DOMAIN reporter.output.games \cup NamesOf(call')
            /\ (/\ reporter.output.overall[1].total_games
                       = Cardinality(OperativeNames(reporter))
                /\ NamesOf(call') \cap OperativeNames(reporter) = {}) =>
                   reporter'.output.overall[1].total_games
                       = Cardinality(OperativeNames(reporter'))]_vars

\* Two games were added under one name and the backups of that name were
\* listed after them: two games in the totals, no Operative entry.
C20_Witness ==
    /\ JsonAggregating(reporter)
    /\ ncalls = 3
    /\ call.op = "add_backups"
    /\ reporter.output.overall[1].total_games = 2
    /\ DOMAIN reporter.output.games = {"foo"}
    /\ reporter.output.games["foo"].tag = "Stored"
    /\ OperativeNames(reporter) = {}

-----------------------------------------------------------------------------
(* C21 *)

\* A text reporter whose aggregation is suppressed.
TextSuppressed(r) == r.tag = "Standard" /\ ~is_some(r.status)

\* C21: in text mode after suppress_overall, render gives the buffered lines
\* joined by newlines and nothing else, for every path: no summary and no
\* warning, also when the cloud conflict or the cloud sync failure was
\* tripped; a warning is rendered only while aggregation is active, and then
\* for each of the two concerns that is tripped.
C21_SuppressedTextIsBufferedLinesOnly ==
    /\ TextSuppressed(reporter) =>
           \A p \in RenderPaths :
               /\ render(reporter, p) = join_lines(reporter.parts)
               /\ CountOf(render(reporter, p), {"summary", "warning"}) = 0
               /\ reporter.parts # <<>> => render(reporter, p) = reporter.parts
    /\ reporter.tag = "Standard" =>
           \A p \in RenderPaths :
               CountOf(render(reporter, p), {"warning"}) > 0
                   => is_some(reporter.status)
    /\ TextAggregating(reporter) =>
           /\ Occurs(ConflictWarning, WarningsOf(reporter))
                  <=> is_some(reporter.errors.cloud_conflict)
           /\ Occurs(SyncFailedWarning, WarningsOf(reporter))
                  <=> is_some(reporter.errors.cloud_sync_failed)

\* A text reporter that holds the lines of a game, on which the cloud
\* conflict was tripped and the overall was suppressed: what is rendered is
\* the lines of the game.
C21_Witness ==
    /\ TextSuppressed(reporter)
    /\ ncalls = 3
    /\ is_some(reporter.errors.cloud_conflict)
    /\ messages(reporter.errors) = << ConflictWarning >>
    /\ CountOf(reporter.parts, {"game_header"}) = 1
    /\ render(reporter, "/dev/null") = reporter.parts

=============================================================================
